---- MODULE Spec2Model ----
(***************************************************************************)
(* Model of GetDependenciesPlugin (artella/plugins/getdependencies):       *)
(* the recursive dependency walker get_dependencies / _get_dependencies.   *)
(*                                                                         *)
(* A path is a record [stem, ext]; two strings naming the same file after  *)
(* utils.clean_path / translate_path are the same path value.  The local   *)
(* file system (local), the scene files' contents (refs) are state; the    *)
(* remote side answers (is a file downloadable, is it the latest version)  *)
(* are fixed the first time the program asks and kept afterwards.          *)
(***************************************************************************)
EXTENDS Integers, Sequences, FiniteSets, TLC

\* ------------------------------------------------------------------ bounds
\* longest list of references the parser returns for one scene file
MaxRefs == 2
\* frames of _get_dependencies the interpreter allows before RecursionError
MaxDepth == 4

\* highest count kept of the progress queries and of the cancel checks of one
\* _download_files call; further ones leave the count there
MaxPolls == 2
\* largest bytes_total the client reports
MaxBytes == 2

\* `while missing_file and total_checks < 5`
MaxChecks == 5

\* ------------------------------------------------------------- the universe
\* dcc.extensions(): the scene extensions of the host
Extensions == {".ma"}

Scenes == {[stem |-> "a", ext |-> ".ma"], [stem |-> "b", ext |-> ".ma"]}
Others == {[stem |-> "c", ext |-> ".png"]}
Paths == Scenes \cup Others

\* the key of the root in found_files: parent_path=None
None == [stem |-> "None", ext |-> ""]

\* os.path.splitext(local_path)[-1]
splitext(p) == p.ext

\* all sequences over S of length at most n
SeqUpTo(S, n) == UNION {[1..k -> S] : k \in 0..n}

\* ------------------------------------------------------------ list helpers
\* x in lst
In(x, lst) == \E i \in 1..Len(lst) : lst[i] = x

\* lst.index(x): the first position of x
index(lst, x) == CHOOSE i \in 1..Len(lst) : lst[i] = x /\ \A j \in 1..(i-1) : lst[j] # x

\* faulty variant of pop: the first element is removed, whatever i is
pop_First(lst, i) == Tail(lst)

\* lst.pop(i)
pop(lst, i) == [j \in 1..(Len(lst)-1) |-> IF j < i THEN lst[j] ELSE lst[j+1]]

\* ------------------------------------------------------------ dict helpers
\* A dict is the sequence of its items [key, children] in insertion order.
\* dict()
EmptyDict == <<>>

\* d.keys()
Keys(d) == {d[i].key : i \in 1..Len(d)}

\* d[key]
Get(d, key) == d[CHOOSE i \in 1..Len(d) : d[i].key = key].children

\* d[key] = lst, for a key of d
Put(d, key, lst) ==
    [i \in 1..Len(d) |-> IF d[i].key = key THEN [key |-> key, children |-> lst] ELSE d[i]]

\* d.setdefault(key, list())
setdefault(d, key) ==
    IF key \in Keys(d) THEN d ELSE Append(d, [key |-> key, children |-> <<>>])


VARIABLES
    refs,         \* parser.parse(path): the references written in each file
    local,        \* the paths for which os.path.isfile holds
    available,    \* per path: does a download bring it ("unasked", "yes", "no")
    latest,       \* per path: file_is_latest_version ("unasked", "yes", "no")
    phase,        \* position in get_dependencies
    outcome,      \* which return statement of get_dependencies was taken
    file_path,    \* the root of the traversal
    recursive,    \* the recursive argument
    found_files,  \* the graph under construction
    stack,        \* the active calls of _get_dependencies, innermost last
    depend_file_paths,  \* _get_dependencies(file_path) or list()
    res,          \* the value get_dependencies returns
    files_to_download,  \* the batch collected from the graph
    parsed,       \* history: the paths handed to parser.parse, in order
    requests,     \* history: the download requests sent, in order
    effects,      \* history: the other calls made (update_paths, post hook)
    dl,           \* _download_files: its locals and position, as a record
    nad           \* get_non_available_dependencies: the same

vars == <<refs, local, available, latest, phase, outcome, file_path, recursive,
          found_files, stack, depend_file_paths, res, files_to_download,
          parsed, requests, effects, dl, nad>>

\* the file system and the remote side
world == <<refs, local, available, latest>>
\* the arguments of the call
args == <<file_path, recursive>>
\* what the top level of get_dependencies owns
toplevel == <<depend_file_paths, res, files_to_download, effects>>

\* _download_files / get_non_available_dependencies not running
NotRunning == [pc |-> "idle"]

Init ==
    /\ refs \in [Paths -> SeqUpTo(Paths, MaxRefs)]
    /\ \A p \in Others : refs[p] = <<>>
    /\ local \in SUBSET Paths
    /\ available = [p \in Paths |-> "unasked"]
    /\ latest = [p \in Paths |-> "unasked"]
    /\ phase = "idle"
    /\ outcome = "none"
    /\ file_path = None
    /\ recursive = TRUE
    /\ found_files = EmptyDict
    /\ stack = <<>>
    /\ depend_file_paths = <<>>
    /\ res = EmptyDict
    /\ files_to_download = <<>>
    /\ parsed = <<>>
    /\ requests = <<>>
    /\ effects = {}
    /\ dl = NotRunning
    /\ nad = NotRunning

\* ------------------------------------------ get_dependencies: the entry
\* faulty variant of ReturnEarly: the post-processing hook runs before the return
ReturnEarly_AfterHook(why) ==
    /\ phase = "idle"
    /\ phase' = "returned"
    /\ outcome' = why
    /\ effects' = effects \cup {"post_get_dependencies"}
    /\ UNCHANGED <<world, args, found_files, stack, depend_file_paths, res,
                   files_to_download, parsed, requests>>
    /\ UNCHANGED <<dl, nad>>

\* `return res` before any work, for the given reason
ReturnEarly(why) ==
    /\ phase = "idle"
    /\ phase' = "returned"
    /\ outcome' = why
    /\ UNCHANGED <<world, args, found_files, stack, toplevel, parsed, requests>>
    /\ UNCHANGED <<dl, nad>>

\* self.is_loaded() is false
NotLoaded == ReturnEarly("not_loaded")

\* get_client() gives nothing, or its check(update=True) fails
ClientUnavailable == ReturnEarly("no_client")

\* no file_path given and dcc.scene_name() is empty
NoActiveScene == ReturnEarly("no_scene")

\* faulty variant of download_file: the path goes out as a batch request
download_file_Batched(local_path) == [call |-> "download", paths |-> <<local_path>>]

\* artella.DccPlugin().download_file(local_path): a request for one file
download_file(local_path) == [call |-> "download_file", paths |-> <<local_path>>]

\* artella_drive_client.download(paths): a request for a batch of files
download(paths) == [call |-> "download", paths |-> paths]

\* faulty variant of Frame: the call is made without parent_path, which is then None
Frame_NoParent(path, parent) == [path |-> path, parent |-> None, pc |-> "record", todo |-> <<>>]

\* a new call of _get_dependencies(path, parent_path=parent)
Frame(path, parent) == [path |-> path, parent |-> parent, pc |-> "record", todo |-> <<>>]

\* the checks pass: file_path (given, or the open scene) is cleaned and the
\* outermost _get_dependencies(file_path) is entered with found_files = dict()
CallGetDependencies(fp, rec) ==
    /\ phase = "idle"
    /\ phase' = "walk"
    /\ file_path' = fp
    /\ recursive' = rec
    /\ found_files' = EmptyDict
    /\ stack' = <<Frame(fp, None)>>
    /\ UNCHANGED <<world, outcome, toplevel, parsed, requests>>
    /\ UNCHANGED <<dl, nad>>

\* --------------------------------------------- _get_dependencies: one call
top == stack[Len(stack)]

\* the innermost call moves to pc with the references still to visit
Goto(pc, todo) == [stack EXCEPT ![Len(stack)] = [@ EXCEPT !.pc = pc, !.todo = todo]]

\* the innermost call returns; the outermost one hands its value to the caller
ReturnFrom(value) ==
    /\ stack' = SubSeq(stack, 1, Len(stack) - 1)
    /\ IF Len(stack) = 1
       THEN /\ phase' = "walked"
            /\ depend_file_paths' = value
       ELSE UNCHANGED <<phase, depend_file_paths>>

\* faulty variant of RecordChild: the key is created and the child is not appended
RecordChild_KeyOnly(d, parent, local_path) == setdefault(d, parent)

\* the child list of parent with local_path added unless already in it
RecordChild(d, parent, local_path) ==
    LET e == setdefault(d, parent)
    IN  IF In(local_path, Get(e, parent)) THEN e
        ELSE Put(e, parent, Append(Get(e, parent), local_path))

\* found_files.setdefault(parent_path, list()) and the guarded append
Record ==
    /\ phase = "walk"
    /\ top.pc = "record"
    /\ found_files' = RecordChild(found_files, top.parent, top.path)
    /\ stack' = Goto("isfile", <<>>)
    /\ UNCHANGED <<world, args, phase, outcome, toplevel, parsed, requests>>
    /\ UNCHANGED <<dl, nad>>

\* faulty variant of RemoveChild: the child that failed to arrive stays in the list
RemoveChild_Kept(d, parent, local_path) == d

\* found_files[parent_path].pop(found_files[parent_path].index(local_path))
RemoveChild(d, parent, local_path) ==
    Put(d, parent, pop(Get(d, parent), index(Get(d, parent), local_path)))

\* not a file locally, download_file brings it
DownloadMissing ==
    /\ phase = "walk"
    /\ top.pc = "isfile"
    /\ top.path \notin local
    /\ available[top.path] # "no"
    /\ requests' = Append(requests, download_file(top.path))
    /\ available' = [available EXCEPT ![top.path] = "yes"]
    /\ latest' = [latest EXCEPT ![top.path] = "yes"]
    /\ local' = local \cup {top.path}
    /\ stack' = Goto("ext", <<>>)
    /\ UNCHANGED <<refs, args, phase, outcome, found_files, toplevel, parsed>>
    /\ UNCHANGED <<dl, nad>>

\* not a file locally and still none after download_file: the child is
\* removed from its parent's list and the call returns None
DownloadFailed ==
    /\ phase = "walk"
    /\ top.pc = "isfile"
    /\ top.path \notin local
    /\ available[top.path] # "yes"
    /\ requests' = Append(requests, download_file(top.path))
    /\ available' = [available EXCEPT ![top.path] = "no"]
    /\ found_files' = RemoveChild(found_files, top.parent, top.path)
    /\ ReturnFrom(<<>>)
    /\ UNCHANGED <<refs, local, latest, args, outcome, res, files_to_download,
                   effects, parsed>>
    /\ UNCHANGED <<dl, nad>>

\* a local file at the latest version: nothing is fetched
IsLatestVersion ==
    /\ phase = "walk"
    /\ top.pc = "isfile"
    /\ top.path \in local
    /\ latest[top.path] # "no"
    /\ latest' = [latest EXCEPT ![top.path] = "yes"]
    /\ stack' = Goto("ext", <<>>)
    /\ UNCHANGED <<refs, local, available, args, phase, outcome, found_files,
                   toplevel, parsed, requests>>
    /\ UNCHANGED <<dl, nad>>

\* a local file behind the remote version: download_file is called, and the
\* file is current afterwards when the download succeeded (ok)
DownloadStale(ok) ==
    /\ phase = "walk"
    /\ top.pc = "isfile"
    /\ top.path \in local
    /\ latest[top.path] # "yes"
    /\ available[top.path] # (IF ok THEN "no" ELSE "yes")
    /\ requests' = Append(requests, download_file(top.path))
    /\ available' = [available EXCEPT ![top.path] = IF ok THEN "yes" ELSE "no"]
    /\ latest' = [latest EXCEPT ![top.path] = IF ok THEN "yes" ELSE "no"]
    /\ stack' = Goto("ext", <<>>)
    /\ UNCHANGED <<refs, local, args, phase, outcome, found_files, toplevel, parsed>>
    /\ UNCHANGED <<dl, nad>>

\* the extension is not one of dcc.extensions(): return None
NotAScene ==
    /\ phase = "walk"
    /\ top.pc = "ext"
    /\ splitext(top.path) \notin Extensions
    /\ ReturnFrom(<<>>)
    /\ UNCHANGED <<world, args, outcome, found_files, res, files_to_download,
                   effects, parsed, requests>>
    /\ UNCHANGED <<dl, nad>>

\* faulty variant of Parse: the extension is not looked at
Parse_AnyExtension ==
    /\ phase = "walk"
    /\ top.pc = "ext"
    /\ parsed' = Append(parsed, top.path)
    /\ stack' = Goto("loop", refs[top.path])
    /\ UNCHANGED <<world, args, phase, outcome, found_files, toplevel, requests>>
    /\ UNCHANGED <<dl, nad>>

\* deps_file_paths = parser.parse(local_path)
Parse ==
    /\ phase = "walk"
    /\ top.pc = "ext"
    /\ splitext(top.path) \in Extensions
    /\ parsed' = Append(parsed, top.path)
    /\ stack' = Goto("loop", refs[top.path])
    /\ UNCHANGED <<world, args, phase, outcome, found_files, toplevel, requests>>
    /\ UNCHANGED <<dl, nad>>

\* faulty variant of Recurse: the loop is left after the first reference
Recurse_OnlyFirst ==
    /\ phase = "walk"
    /\ top.pc = "loop"
    /\ recursive
    /\ top.todo # <<>>
    /\ Len(stack) < MaxDepth
    /\ stack' = Append(Goto("loop", <<>>), Frame(Head(top.todo), top.path))
    /\ UNCHANGED <<world, args, phase, outcome, found_files, toplevel, parsed, requests>>
    /\ UNCHANGED <<dl, nad>>

\* recursive: the next reference is visited with this file as its parent
Recurse ==
    /\ phase = "walk"
    /\ top.pc = "loop"
    /\ recursive
    /\ top.todo # <<>>
    /\ Len(stack) < MaxDepth
    /\ stack' = Append(Goto("loop", Tail(top.todo)), Frame(Head(top.todo), top.path))
    /\ UNCHANGED <<world, args, phase, outcome, found_files, toplevel, parsed, requests>>
    /\ UNCHANGED <<dl, nad>>

\* recursive, and the interpreter has no frame left for the next call
RecursionError ==
    /\ phase = "walk"
    /\ top.pc = "loop"
    /\ recursive
    /\ top.todo # <<>>
    /\ Len(stack) >= MaxDepth
    /\ phase' = "raised"
    /\ outcome' = "RecursionError"
    /\ UNCHANGED <<world, args, found_files, stack, toplevel, parsed, requests>>
    /\ UNCHANGED <<dl, nad>>

\* faulty variant of AppendDep: the references of the dependency are merged into
\* the same list
AppendDep_Merged(d, key, dep_file_path) ==
    LET e == setdefault(d, key)
    IN  Put(e, key, Append(Get(e, key), dep_file_path) \o refs[dep_file_path])

\* faulty variant of AppendDep: the dependency gets a key of its own
AppendDep_Nested(d, key, dep_file_path) ==
    LET e == setdefault(setdefault(d, key), dep_file_path)
    IN  Put(e, key, Append(Get(e, key), dep_file_path))

\* the list of key with dep_file_path appended, without a membership test
AppendDep(d, key, dep_file_path) ==
    LET e == setdefault(d, key)
    IN  Put(e, key, Append(Get(e, key), dep_file_path))

\* not recursive: the next reference is appended under this file's own key
RecordDep ==
    /\ phase = "walk"
    /\ top.pc = "loop"
    /\ ~recursive
    /\ top.todo # <<>>
    /\ found_files' = AppendDep(found_files, top.path, Head(top.todo))
    /\ stack' = Goto("loop", Tail(top.todo))
    /\ UNCHANGED <<world, args, phase, outcome, toplevel, parsed, requests>>
    /\ UNCHANGED <<dl, nad>>

\* the loop is over: return found_files
Return ==
    /\ phase = "walk"
    /\ top.pc = "loop"
    /\ top.todo = <<>>
    /\ ReturnFrom(found_files)
    /\ UNCHANGED <<world, args, outcome, found_files, res, files_to_download,
                   effects, parsed, requests>>
    /\ UNCHANGED <<dl, nad>>

\* ------------------------------------- get_dependencies: after the walk
\* faulty variant of NoDependencies: what the traversal recorded is returned
NoDependencies_ReturnsFound ==
    /\ phase = "walked"
    /\ depend_file_paths = <<>>
    /\ phase' = "returned"
    /\ outcome' = "no_dependencies"
    /\ res' = found_files
    /\ UNCHANGED <<world, args, found_files, stack, depend_file_paths,
                   files_to_download, effects, parsed, requests>>
    /\ UNCHANGED <<dl, nad>>

\* _get_dependencies returned None: `return res`, the empty graph
NoDependencies ==
    /\ phase = "walked"
    /\ depend_file_paths = <<>>
    /\ phase' = "returned"
    /\ outcome' = "no_dependencies"
    /\ UNCHANGED <<world, args, found_files, stack, toplevel, parsed, requests>>
    /\ UNCHANGED <<dl, nad>>

\* the children of all keys of d, in the order of d.values()
RECURSIVE Flatten(_)
Flatten(d) == IF d = <<>> THEN <<>> ELSE Head(d).children \o Flatten(Tail(d))

\* the paths of lst with a status on the remote side (known), each once
RECURSIVE Collect(_, _, _)
Collect(lst, known, acc) ==
    IF lst = <<>> THEN acc
    ELSE Collect(Tail(lst), known,
                 IF ~In(Head(lst), acc) /\ Head(lst) \in known
                 THEN Append(acc, Head(lst)) ELSE acc)

\* the elements of a list
Range(lst) == {lst[i] : i \in 1..Len(lst)}

\* res = depend_file_paths, and files_to_download is collected from its
\* lists; known are the paths for which client.status answers
CollectFiles(known) ==
    /\ phase = "walked"
    /\ depend_file_paths # <<>>
    /\ res' = depend_file_paths
    /\ files_to_download' = Collect(Flatten(depend_file_paths), known, <<>>)
    /\ phase' = "download"
    /\ UNCHANGED <<world, args, outcome, found_files, stack, depend_file_paths,
                   effects, parsed, requests>>
    /\ UNCHANGED <<dl, nad>>

\* self._download_files(files_to_download): one request for the whole list;
\* got are the requested paths that were missing and have arrived when it ends
DownloadFiles(got) ==
    /\ phase = "download"
    /\ got \subseteq {p \in Range(files_to_download) \ local : available[p] # "no"}
    /\ requests' = Append(requests, download(files_to_download))
    /\ local' = local \cup got
    /\ available' = [p \in Paths |-> IF p \in got THEN "yes" ELSE available[p]]
    /\ latest' = [p \in Paths |-> IF p \in got THEN "yes" ELSE latest[p]]
    /\ phase' = "finish"
    /\ UNCHANGED <<refs, args, outcome, found_files, stack, toplevel, parsed>>
    /\ UNCHANGED <<dl, nad>>

\* _download_files finds no client, or its check fails: nothing is requested
DownloadFilesNoClient ==
    /\ phase = "download"
    /\ phase' = "finish"
    /\ UNCHANGED <<world, args, outcome, found_files, stack, toplevel, parsed, requests>>
    /\ UNCHANGED <<dl, nad>>

\* the path-rewrite pass when update_paths is set, the post-processing hook,
\* the success message, and `return res`
Finish(update_paths) ==
    /\ phase = "finish"
    /\ effects' = effects \cup {"post_get_dependencies", "show_success_message"}
                          \cup (IF update_paths THEN {"update_paths"} ELSE {})
    /\ phase' = "returned"
    /\ outcome' = "ok"
    /\ UNCHANGED <<world, args, found_files, stack, depend_file_paths, res,
                   files_to_download, parsed, requests>>
    /\ UNCHANGED <<dl, nad>>

Walk ==
    \/ Record
    \/ DownloadMissing
    \/ DownloadFailed
    \/ IsLatestVersion
    \/ \E ok \in BOOLEAN : DownloadStale(ok)
    \/ NotAScene
    \/ Parse
    \/ Recurse
    \/ RecursionError
    \/ RecordDep
    \/ Return

Next ==
    \/ NotLoaded
    \/ ClientUnavailable
    \/ NoActiveScene
    \/ \E fp \in Paths, rec \in BOOLEAN : CallGetDependencies(fp, rec)
    \/ Walk
    \/ NoDependencies
    \/ \E known \in SUBSET Paths : CollectFiles(known)
    \/ \E got \in SUBSET Paths : DownloadFiles(got)
    \/ DownloadFilesNoClient
    \/ \E update_paths \in BOOLEAN : Finish(update_paths)

Spec == Init /\ [][Next]_vars
\* ====================================================== _download_files
\* the smaller of two numbers
Min(a, b) == IF a < b THEN a ELSE b

\* the percent values the client reports
Percents == {0, 50, 100}

\* artella_drive_client.get_progress(): progress, bytes done, bytes total
\* (the two file counts are only displayed)
Progress == {t \in [progress : Percents, bd : 0..MaxBytes, bt : 0..MaxBytes] : t.bd <= t.bt}

\* the call _download_files(files_to_download, show_dialogs) is entered
DownloadCall(show_dialogs) ==
    [pc |-> "check", show_dialogs |-> show_dialogs, settled |-> FALSE,
     bar |-> "none", cancelled |-> FALSE, valid_download |-> TRUE,
     progress |-> [progress |-> 0, bd |-> 0, bt |-> 0],
     polls |-> 0, cancel_checks |-> 0, pauses |-> 0,
     missing_file |-> FALSE, total_checks |-> 0]

\* a direct call of _download_files with any list of paths
InitDownload ==
    /\ refs = [p \in Paths |-> <<>>]
    /\ local \in SUBSET Paths
    /\ available = [p \in Paths |-> "unasked"]
    /\ latest = [p \in Paths |-> "unasked"]
    /\ phase = "idle"
    /\ outcome = "none"
    /\ file_path = None
    /\ recursive = TRUE
    /\ found_files = EmptyDict
    /\ stack = <<>>
    /\ depend_file_paths = <<>>
    /\ res = EmptyDict
    /\ files_to_download \in SeqUpTo(Paths, MaxRefs)
    /\ parsed = <<>>
    /\ requests = <<>>
    /\ effects = {}
    /\ dl \in {DownloadCall(show_dialogs) : show_dialogs \in BOOLEAN}
    /\ nad = NotRunning

\* what _download_files never touches
walker == <<refs, available, latest, phase, outcome, file_path, recursive, found_files,
            stack, depend_file_paths, res, files_to_download, parsed, effects, nad>>

\* while the call waits, requested files that were missing may arrive
Arrive(got) ==
    /\ got \subseteq Range(files_to_download) \ local
    /\ local' = local \cup got

\* no client, or its check(update=True) fails: return
DlNoClient ==
    /\ dl.pc = "check"
    /\ dl' = [dl EXCEPT !.pc = "done"]
    /\ UNCHANGED <<walker, local, requests>>

\* faulty variant of DlDownload: the poll loop starts without the settle wait
DlDownload_NoSettle ==
    /\ dl.pc = "check"
    /\ requests' = Append(requests, download(files_to_download))
    /\ dl' = [dl EXCEPT !.pc = "bar"]
    /\ UNCHANGED <<walker, local>>

\* artella_drive_client.download(files_to_download)
DlDownload ==
    /\ dl.pc = "check"
    /\ requests' = Append(requests, download(files_to_download))
    /\ dl' = [dl EXCEPT !.pc = "settle"]
    /\ UNCHANGED <<walker, local>>

\* time.sleep(1.0) after the request
DlSettle(got) ==
    /\ dl.pc = "settle"
    /\ Arrive(got)
    /\ dl' = [dl EXCEPT !.pc = "bar", !.settled = TRUE]
    /\ UNCHANGED <<walker, requests>>

\* valid_download = True; with show_dialogs the progress bar is started, and
\* from then on the user can cancel (c: the user already has)
DlStartBar(c) ==
    /\ dl.pc = "bar"
    /\ c => dl.show_dialogs
    /\ dl' = [dl EXCEPT !.pc = "loop", !.valid_download = TRUE, !.cancelled = c,
                        !.bar = IF dl.show_dialogs THEN "started" ELSE "none"]
    /\ UNCHANGED <<walker, local, requests>>

\* faulty variant of DlCancel: the loop is not left after pause_downloads
DlCancel_NoBreak ==
    /\ dl.pc = "loop"
    /\ dl.show_dialogs /\ dl.cancelled
    /\ dl' = [dl EXCEPT !.pauses = @ + 1, !.valid_download = FALSE,
                        !.cancel_checks = Min(@ + 1, MaxPolls)]
    /\ UNCHANGED <<walker, local, requests>>

\* the loop finds is_cancelled(): pause_downloads(), valid_download = False, break
DlCancel ==
    /\ dl.pc = "loop"
    /\ dl.show_dialogs /\ dl.cancelled
    /\ dl' = [dl EXCEPT !.pc = "reconcile", !.pauses = @ + 1, !.valid_download = FALSE,
                        !.cancel_checks = Min(@ + 1, MaxPolls)]
    /\ UNCHANGED <<walker, local, requests>>

\* one iteration that is not cancelled: get_progress() answers t, the bar is
\* updated, and the loop is left when progress >= 100 or bd == bt; meanwhile
\* files arrive (got) and the user may cancel (c)
DlPoll(t, got, c) ==
    /\ dl.pc = "loop"
    /\ ~(dl.show_dialogs /\ dl.cancelled)
    /\ c => dl.show_dialogs
    /\ Arrive(got)
    /\ dl' = [dl EXCEPT !.progress = t,
                        !.polls = Min(@ + 1, MaxPolls),
                        !.cancel_checks = IF dl.show_dialogs THEN Min(@ + 1, MaxPolls) ELSE @,
                        !.cancelled = c,
                        !.pc = IF t.progress >= 100 \/ t.bd = t.bt THEN "reconcile" ELSE "loop"]
    /\ UNCHANGED <<walker, requests>>

\* total_checks = 0; after a valid download missing_file is set when one of
\* the requested paths does not exist
DlReconcile ==
    /\ dl.pc = "reconcile"
    /\ dl' = [dl EXCEPT !.pc = "retry", !.total_checks = 0,
                        !.missing_file = IF dl.valid_download
                                         THEN \E f \in Range(files_to_download) : f \notin local
                                         ELSE FALSE]
    /\ UNCHANGED <<walker, local, requests>>

\* `while missing_file and total_checks < 5`: sleep and count; missing_file
\* is not computed again
DlRetryDelay(got) ==
    /\ dl.pc = "retry"
    /\ dl.missing_file /\ dl.total_checks < MaxChecks
    /\ Arrive(got)
    /\ dl' = [dl EXCEPT !.total_checks = @ + 1]
    /\ UNCHANGED <<walker, requests>>

\* the retry loop is over; with show_dialogs the progress bar is ended
DlEnd ==
    /\ dl.pc = "retry"
    /\ ~(dl.missing_file /\ dl.total_checks < MaxChecks)
    /\ dl' = [dl EXCEPT !.pc = "done", !.bar = IF dl.show_dialogs THEN "ended" ELSE "none"]
    /\ UNCHANGED <<walker, local, requests>>

NextDownload ==
    \/ DlNoClient
    \/ DlDownload
    \/ \E got \in SUBSET Paths : DlSettle(got)
    \/ \E c \in BOOLEAN : DlStartBar(c)
    \/ DlCancel
    \/ \E t \in Progress, got \in SUBSET Paths, c \in BOOLEAN : DlPoll(t, got, c)
    \/ DlReconcile
    \/ \E got \in SUBSET Paths : DlRetryDelay(got)
    \/ DlEnd

SpecDownload == InitDownload /\ [][NextDownload]_vars

\* the calling thread keeps running: a step that can be taken is taken
FairSpecDownload == SpecDownload /\ WF_vars(NextDownload)

\* ==================================== get_non_available_dependencies
\* Here a path is a record [dir, parts, ext]: the directory, the file name
\* without extension cut at "_", and the extension.
Dirs == {"d1", "d2"}

\* the placeholder of a UDIM reference
UDIM == "<UDIM>"

\* the file names the remote directories hold
tile_1001_color == [parts |-> <<"tile", "1001", "color">>, ext |-> ".png"]
tile_1002_color == [parts |-> <<"tile", "1002", "color">>, ext |-> ".png"]
tile_color_1001 == [parts |-> <<"tile", "color", "1001">>, ext |-> ".png"]
tile_color == [parts |-> <<"tile", "color">>, ext |-> ""]

\* os.path.join(directory_path, file_name)
join(directory_path, file_name) ==
    [dir |-> directory_path, parts |-> file_name.parts, ext |-> file_name.ext]

\* the files that can exist locally
NadPaths == {join(d, n) : d \in Dirs, n \in {tile_1001_color, tile_1002_color, tile_color_1001}}

\* the references the parser can return: UDIM patterns and one plain file
NadRefs ==
    { [dir |-> "d1", parts |-> <<"tile", UDIM, "color">>, ext |-> ".png"],
      [dir |-> "d1", parts |-> <<"tile", "color", UDIM>>, ext |-> ".png"],
      [dir |-> "d2", parts |-> <<"tile", "color", UDIM>>, ext |-> ".png"],
      join("d1", tile_1001_color) }

\* what status(folder_directory, include_remote=True) can list for a folder
Listings ==
    { <<>>,
      <<tile_1001_color, tile_1002_color>>,
      <<tile_color_1001>>,
      <<tile_color, tile_color_1001>> }

\* dcc.is_udim_path(dep_file_path)
is_udim_path(dep) == In(UDIM, dep.parts)

\* name.split('_') for a name made of parts and an extension: the extension
\* stays on the last piece
split(parts, ext) ==
    [i \in 1..Len(parts) |-> [s |-> parts[i], ext |-> IF i = Len(parts) THEN ext ELSE ""]]

\* the loop over zip(dep_file_parts, file_parts): valid
Matches(dep_file_parts, file_parts) ==
    \A i \in 1..Min(Len(dep_file_parts), Len(file_parts)) :
        \/ dep_file_parts[i] = [s |-> UDIM, ext |-> ""]
        \/ dep_file_parts[i] = file_parts[i]

\* a translated path is reported when it is no local file and has an extension
Reportable(translated_path, isfile) ==
    translated_path \notin isfile /\ translated_path.ext # ""

\* the paths of lst that are reportable, in order
RECURSIVE Missing(_, _)
Missing(lst, isfile) ==
    IF lst = <<>> THEN <<>>
    ELSE (IF Reportable(Head(lst), isfile) THEN <<Head(lst)>> ELSE <<>>)
         \o Missing(Tail(lst), isfile)

\* the names of file_names that match the reference, joined to directory_path
RECURSIVE Candidates(_, _, _)
Candidates(dep, directory_path, file_names) ==
    IF file_names = <<>> THEN <<>>
    ELSE (IF Matches(split(dep.parts, ""), split(Head(file_names).parts, Head(file_names).ext))
          THEN <<join(directory_path, Head(file_names))>> ELSE <<>>)
         \o Candidates(dep, directory_path, Tail(file_names))

\* `for directory_path, file_names in remote_path_files.items()`: the
\* candidates of every folder listed so far
RECURSIVE AllCandidates(_, _)
AllCandidates(dep, remote_path_files) ==
    IF remote_path_files = <<>> THEN <<>>
    ELSE Candidates(dep, Head(remote_path_files).key, Head(remote_path_files).children)
         \o AllCandidates(dep, Tail(remote_path_files))

\* remote_path_files after the folder of dep was looked up, once per folder
Listed(dep, remote_path_files, listing) ==
    IF dep.dir \in Keys(remote_path_files) THEN remote_path_files
    ELSE Append(remote_path_files, [key |-> dep.dir, children |-> listing[dep.dir]])

\* the loop over deps_file_paths: non_available_deps
RECURSIVE NonAvailable(_, _, _, _)
NonAvailable(deps, remote_path_files, listing, isfile) ==
    IF deps = <<>> THEN <<>>
    ELSE LET dep == Head(deps)
             rpf == IF is_udim_path(dep) THEN Listed(dep, remote_path_files, listing)
                    ELSE remote_path_files
         IN  (IF is_udim_path(dep) THEN Missing(AllCandidates(dep, rpf), isfile)
              ELSE Missing(<<dep>>, isfile))
             \o NonAvailable(Tail(deps), rpf, listing, isfile)

\* DependenciesListDialog: do_sync and do_recursive after the user pressed
\* Yes, pressed No, or closed the dialog; checked is the Recursive checkbox
DialogResult(button, checked) ==
    CASE button = "yes" -> [do_sync |-> TRUE, do_recursive |-> checked]
      [] button = "no" -> [do_sync |-> FALSE, do_recursive |-> TRUE]
      [] OTHER -> [do_sync |-> FALSE, do_recursive |-> TRUE]

\* the call get_non_available_dependencies(file_path, show_dialogs) with the
\* parser's answer deps, the remote listings and the local files
NonAvailableCall(show_dialogs, deps, listing, isfile) ==
    [pc |-> "start", show_dialogs |-> show_dialogs, deps |-> deps, listing |-> listing,
     isfile |-> isfile, non_available_deps |-> <<>>, button |-> "none",
     get_deps |-> FALSE, recursive |-> FALSE, calls |-> <<>>, returned |-> <<>>,
     exit |-> "none"]

InitNonAvailable ==
    /\ refs = [p \in Paths |-> <<>>]
    /\ local = {}
    /\ available = [p \in Paths |-> "unasked"]
    /\ latest = [p \in Paths |-> "unasked"]
    /\ phase = "idle"
    /\ outcome = "none"
    /\ file_path = None
    /\ recursive = TRUE
    /\ found_files = EmptyDict
    /\ stack = <<>>
    /\ depend_file_paths = <<>>
    /\ res = EmptyDict
    /\ files_to_download = <<>>
    /\ parsed = <<>>
    /\ requests = <<>>
    /\ effects = {}
    /\ dl = NotRunning
    /\ nad \in {NonAvailableCall(show_dialogs, deps, listing, isfile) :
                  show_dialogs \in BOOLEAN, deps \in SeqUpTo(NadRefs, MaxRefs),
                  listing \in [Dirs -> Listings], isfile \in SUBSET NadPaths}

\* what get_non_available_dependencies never touches
nadrest == <<refs, local, available, latest, phase, outcome, file_path, recursive,
             found_files, stack, depend_file_paths, res, files_to_download, parsed,
             effects, dl>>

\* no client: the empty list is returned
NadNoClient ==
    /\ nad.pc = "start"
    /\ nad' = [nad EXCEPT !.pc = "done", !.exit = "no_client"]
    /\ UNCHANGED <<nadrest, requests>>

\* no scene file at file_path: a warning, and the empty list is returned
NadNoFile ==
    /\ nad.pc = "start"
    /\ nad' = [nad EXCEPT !.pc = "done", !.exit = "no_file"]
    /\ UNCHANGED <<nadrest, requests>>

\* the parser gives no reference: the empty list is returned
NadNoDeps ==
    /\ nad.pc = "start"
    /\ nad.deps = <<>>
    /\ nad' = [nad EXCEPT !.pc = "done", !.exit = "no_deps"]
    /\ UNCHANGED <<nadrest, requests>>

\* the references are resolved and the missing ones collected
NadResolve ==
    /\ nad.pc = "start"
    /\ nad.deps # <<>>
    /\ nad' = [nad EXCEPT !.pc = "resolved",
                          !.non_available_deps =
                              NonAvailable(nad.deps, <<>>, nad.listing, nad.isfile)]
    /\ UNCHANGED <<nadrest, requests>>

\* faulty variant of NadDecide: the dialog's answer is not used
NadDecide_IgnoresAnswer(button, checked) ==
    /\ nad.pc = "resolved"
    /\ nad.non_available_deps # <<>>
    /\ button \in (IF nad.show_dialogs THEN {"yes", "no", "closed"} ELSE {"none"})
    /\ nad' = [nad EXCEPT !.pc = "decided", !.button = button,
                          !.get_deps = TRUE, !.recursive = TRUE]
    /\ UNCHANGED <<nadrest, requests>>

\* something is missing: get_deps = recursive = True, and with show_dialogs
\* the dialog decides both
NadDecide(button, checked) ==
    /\ nad.pc = "resolved"
    /\ nad.non_available_deps # <<>>
    /\ button \in (IF nad.show_dialogs THEN {"yes", "no", "closed"} ELSE {"none"})
    /\ nad' = [nad EXCEPT !.pc = "decided", !.button = button,
                          !.get_deps = IF nad.show_dialogs
                                       THEN DialogResult(button, checked).do_sync ELSE TRUE,
                          !.recursive = IF nad.show_dialogs
                                        THEN DialogResult(button, checked).do_recursive ELSE TRUE]
    /\ UNCHANGED <<nadrest, requests>>

\* get_deps and recursive: get_dependencies is called for each missing path
NadGetDependencies ==
    /\ nad.pc = "decided"
    /\ nad.get_deps /\ nad.recursive
    /\ nad' = [nad EXCEPT !.pc = "result", !.calls = nad.non_available_deps]
    /\ UNCHANGED <<nadrest, requests>>

\* get_deps and not recursive: _download_files(non_available_deps), which
\* sends its request when it has a client (ok)
NadDownloadFiles(ok) ==
    /\ nad.pc = "decided"
    /\ nad.get_deps /\ ~nad.recursive
    /\ requests' = IF ok THEN Append(requests, download(nad.non_available_deps)) ELSE requests
    /\ nad' = [nad EXCEPT !.pc = "result"]
    /\ UNCHANGED nadrest

\* nothing is missing, or the user did not accept: the result dialog (shown
\* only for retrieved dependencies) and `return non_available_deps`
NadReturn ==
    /\ \/ nad.pc = "resolved" /\ nad.non_available_deps = <<>>
       \/ nad.pc = "decided" /\ ~nad.get_deps
       \/ nad.pc = "result"
    /\ nad' = [nad EXCEPT !.pc = "done", !.returned = nad.non_available_deps,
                          !.exit = "return"]
    /\ UNCHANGED <<nadrest, requests>>

NextNonAvailable ==
    \/ NadNoClient
    \/ NadNoFile
    \/ NadNoDeps
    \/ NadResolve
    \/ \E button \in {"yes", "no", "closed", "none"}, checked \in BOOLEAN :
           NadDecide(button, checked)
    \/ NadGetDependencies
    \/ \E ok \in BOOLEAN : NadDownloadFiles(ok)
    \/ NadReturn

SpecNonAvailable == InitNonAvailable /\ [][NextNonAvailable]_vars

\* ============================================================== properties
\* get_dependencies went through the walk and returned the graph
ReturnedGraph == phase = "returned" /\ outcome = "ok"

\* p occurs in some child list of graph d
IsChild(d, p) == \E k \in Keys(d) : In(p, Get(d, k))

\* the download attempt for p was made and p is still no file
FetchFailed(p) == p \notin local /\ available[p] = "no"

\* some scene file that was parsed references p
Referenced(p) == \E q \in Range(parsed) : In(p, refs[q])

\* lst without repetitions: each element once, at its first position
RECURSIVE Dedup(_, _)
Dedup(lst, acc) ==
    IF lst = <<>> THEN acc
    ELSE Dedup(Tail(lst), IF In(Head(lst), acc) THEN acc ELSE Append(acc, Head(lst)))

\* no download_file request was made during the walk: every file visited
\* was locally present and at the latest version
AllPresentCurrent == \A i \in 1..Len(requests) : requests[i].call # "download_file"

\* the scene files reached from the scenes S along the references
RECURSIVE Reached(_)
Reached(S) ==
    LET T == S \cup {p \in Scenes : \E q \in S : In(p, refs[q])}
    IN  IF T = S THEN S ELSE Reached(T)

\* ---- C1
\* C1: recursive mode: a referenced file that is absent and still absent
\* after its download attempt is no key of the returned graph and is in no
\* child list of it (so not in the list of the parent that referenced it).
C1_FailedFetchPruned ==
    (phase = "returned" /\ recursive) =>
        \A p \in Paths : FetchFailed(p) => p \notin Keys(res) /\ ~IsChild(res, p)

\* a graph was returned after a reference of a parsed scene failed to arrive
C1_Witness ==
    /\ ReturnedGraph /\ recursive
    /\ \E p \in Paths : FetchFailed(p) /\ Referenced(p)
    /\ \E k \in Keys(res) : k # None /\ Get(res, k) # <<>>

\* ---- C2
\* C2: recursive mode terminates for every set of scene files, cyclic
\* reference relations included: the walk never runs out of call frames.
C2_Terminates == phase # "raised"

\* ---- C3
\* C3: recursive mode: when a reference of a parsed scene could not be
\* fetched, every other reference of that scene that is a local file is in
\* the scene's child list and, when it is a scene file, has been parsed.
C3_SiblingsContinue ==
    (ReturnedGraph /\ recursive) =>
        \A q \in Range(parsed) :
            (\E p \in Range(refs[q]) : FetchFailed(p)) =>
                \A s \in Range(refs[q]) \cap local :
                    /\ q \in Keys(res)
                    /\ In(s, Get(res, q))
                    /\ (splitext(s) \in Extensions => In(s, parsed))

\* a scene whose first reference failed and whose second, a scene file with
\* references of its own, was still recorded
C3_Witness ==
    /\ ReturnedGraph /\ recursive
    /\ \E q \in Range(parsed) :
         /\ Len(refs[q]) = 2
         /\ FetchFailed(refs[q][1])
         /\ refs[q][2] \in Scenes \cap local
         /\ refs[q][2] # q
         /\ refs[refs[q][2]] # <<>>

\* ---- C4
\* C4: recursive mode with every visited file present and current: the
\* returned graph has the sentinel key with the root, and one key for each
\* reached scene file with at least one reference, mapped to its references
\* in parse order (a reference the parser repeats is listed once).
C4_GraphIsReferenceRelation ==
    (ReturnedGraph /\ recursive /\ AllPresentCurrent) =>
        /\ Keys(res) = {None} \cup {q \in Reached({file_path}) : refs[q] # <<>>}
        /\ Get(res, None) = <<file_path>>
        /\ \A q \in Keys(res) \ {None} : Get(res, q) = Dedup(refs[q], <<>>)

\* the chain a -> b -> c: a: [b], b: [c], and c is no key
C4_Witness ==
    /\ ReturnedGraph /\ recursive /\ AllPresentCurrent
    /\ \E a \in Scenes, b \in Scenes, c \in Others :
         res = << [key |-> None, children |-> <<a>>],
                  [key |-> a, children |-> <<b>>],
                  [key |-> b, children |-> <<c>>] >>

\* ---- C5
\* C5 as stated: a root scene file that is present and has no references
\* gives a graph with only the root key, mapped to the empty list.
C5_RootKeyEmptyList ==
    (phase = "returned" /\ recursive /\ file_path \in Scenes \cap local
        /\ refs[file_path] = <<>>) =>
        res = << [key |-> file_path, children |-> <<>>] >>

\* C5 amended: a root scene file that is present and has no references gives
\* a graph with only the sentinel key None, mapped to the list of the root.
C5_SentinelKeyWithRoot ==
    (phase = "returned" /\ recursive /\ file_path \in Scenes \cap local
        /\ refs[file_path] = <<>>) =>
        /\ outcome = "ok"
        /\ res = << [key |-> None, children |-> <<file_path>>] >>

\* a present root scene without references was walked and the graph returned
C5_Witness ==
    /\ ReturnedGraph /\ recursive
    /\ file_path \in Scenes \cap local
    /\ refs[file_path] = <<>>
    /\ parsed = <<file_path>>
\* ---- C6
\* C6 as stated: not recursive, the root references b, b is a local file and
\* references c: c is in the child list under the root's key.
C6_TransitiveMergedUnderRoot ==
    (ReturnedGraph /\ ~recursive) =>
        \A b \in Range(refs[file_path]) \cap local : \A c \in Range(refs[b]) :
            In(c, Get(res, file_path))

\* C6 amended: not recursive: the child list under the root's key is the
\* list of the root's own references as parsed; the references of a direct
\* dependency are not read and are in that list only when the root names
\* them itself.
C6_OnlyRootReferences ==
    (ReturnedGraph /\ ~recursive /\ refs[file_path] # <<>>) =>
        /\ file_path \in Keys(res)
        /\ Get(res, file_path) = refs[file_path]

\* the root references only b, b is local and references c, and the graph
\* was returned without c
C6_Witness ==
    /\ ReturnedGraph /\ ~recursive
    /\ \E b \in Scenes \cap local, c \in Paths :
         /\ b # file_path /\ c # b /\ c # file_path
         /\ refs[file_path] = <<b>>
         /\ In(c, refs[b])
         /\ ~IsChild(res, c)

\* ---- C7
\* C7: not recursive: only the root file is parsed, the graph has no key
\* besides the sentinel and the root, so no dependency gets a key of its
\* own, and every reference of the root is in the root's list.
C7_OnlyRootParsedNoNestedKey ==
    (ReturnedGraph /\ ~recursive) =>
        /\ parsed = <<file_path>>
        /\ Keys(res) \subseteq {None, file_path}
        /\ \A b \in Range(refs[file_path]) : In(b, Get(res, file_path))

\* the root references b, b references c, and the graph was returned
C7_Witness ==
    /\ ReturnedGraph /\ ~recursive
    /\ \E b \in Scenes, c \in Paths :
         /\ b # file_path /\ c # b
         /\ In(b, refs[file_path])
         /\ In(c, refs[b])
         /\ In(b, Get(res, file_path))
         /\ b \notin Keys(res)

\* ---- C8
\* lst holds no element twice
NoDuplicates(lst) == \A i, j \in 1..Len(lst) : lst[i] = lst[j] => i = j

\* C8: in both modes no child list of a returned graph holds a path twice,
\* also when the parser returns a reference several times.
C8_NoDuplicateChildren ==
    phase = "returned" => \A k \in Keys(res) : NoDuplicates(Get(res, k))

\* ---- C9
\* every key of d but the sentinel is in the child list of some key
KeysAreChildren(d) == \A k \in Keys(d) \ {None} : IsChild(d, k)

\* C9: at every step of the walk and in the returned graph, every key other
\* than the sentinel None is in the child list of some key.
C9_KeysAreChildren == KeysAreChildren(found_files) /\ KeysAreChildren(res)

\* a failed fetch has removed an entry from the list of a key that is not
\* the sentinel
C9_Witness ==
    /\ phase = "walk"
    /\ \E p \in Paths : FetchFailed(p) /\ Referenced(p) /\ ~IsChild(found_files, p)
    /\ \E k \in Keys(found_files) : k # None /\ Get(found_files, k) # <<>>

\* ---- C10
\* C10: when the client is absent or its check fails, or no path is given
\* and no scene is open, the empty graph is returned and nothing was parsed,
\* no download was requested, no path-rewrite pass and no post-processing
\* hook ran.
C10_AbortsBeforeAnyWork ==
    (phase = "returned" /\ outcome \in {"no_client", "no_scene"}) =>
        /\ res = EmptyDict
        /\ parsed = <<>>
        /\ requests = <<>>
        /\ effects = {}

\* get_dependencies returned because there is no client or no scene
C10_Witness == phase = "returned" /\ outcome \in {"no_client", "no_scene"}
\* ---- C11
\* the loop of _download_files has seen is_cancelled() answer true
CancelObserved == dl.pc # "idle" /\ ~dl.valid_download

\* C11: when the polling loop sees the cancel flag, pause_downloads is called
\* exactly once and the loop is left; from then on there is no progress
\* query and no second pause; when the first check of the flag already sees
\* it, no progress query was made at all.
C11_CancelPausesOnceAndLeaves ==
    /\ [](CancelObserved => dl.pauses = 1 /\ dl.pc \in {"reconcile", "retry", "done"})
    /\ [](dl.pc # "idle" /\ dl.valid_download => dl.pauses = 0)
    /\ [](CancelObserved /\ dl.cancel_checks = 1 => dl.polls = 0)
    /\ [][CancelObserved => dl'.polls = dl.polls /\ dl'.pauses = dl.pauses]_vars

\* the flag was seen after at least one progress query, and the call is over
C11_Witness ==
    /\ CancelObserved
    /\ dl.pc = "done"
    /\ dl.polls > 0
    /\ dl.pauses = 1

\* ---- C12
\* C12: without a cancellation _download_files terminates whatever the
\* client reports, also when the percent never reaches 100 and bytes done
\* never equals bytes total.
C12_BoundedWait == <>(dl.cancelled \/ dl.pc = "done")

\* ---- C13
\* the reference tile_<UDIM>_color.png in directory d1
tile_UDIM_color == [dir |-> "d1", parts |-> <<"tile", UDIM, "color">>, ext |-> ".png"]

\* C13: for the reference tile_<UDIM>_color.png whose remote directory lists
\* tile_1001_color.png and tile_1002_color.png, neither present locally,
\* exactly those two files are reported, in listing order.
C13_UdimResolvesListedTiles ==
    ( /\ nad.pc \in {"resolved", "decided", "result", "done"}
      /\ nad.exit \in {"none", "return"}
      /\ nad.deps = <<tile_UDIM_color>>
      /\ nad.listing["d1"] = <<tile_1001_color, tile_1002_color>>
      /\ join("d1", tile_1001_color) \notin nad.isfile
      /\ join("d1", tile_1002_color) \notin nad.isfile )
    => nad.non_available_deps =
           <<join("d1", tile_1001_color), join("d1", tile_1002_color)>>

\* ---- C14
\* C14: no download request of get_dependencies, per-file or batch, carries
\* a path that is locally present and at the latest version when it is sent.
C14_PresentCurrentNeverFetched ==
    [][Len(requests') > Len(requests) =>
           \A p \in Range(requests'[Len(requests')].paths) :
               ~(p \in local /\ latest[p] = "yes")]_vars

\* ---- C15
\* the positions in requests of the requests made with call
RequestsOf(call) == {i \in 1..Len(requests) : requests[i].call = call}

C16_RequestsHoldEachPathOnce ==
    \A i \in 1..Len(requests) : NoDuplicates(requests[i].paths)

\* ---- C17
\* C17: the retry loop checks the requested paths again at each attempt: it
\* goes on to another delay only while one of them is still missing, and it
\* makes at most 5 delays.
C17_RetryRechecksExistence ==
    dl.pc = "retry" =>
        /\ dl.total_checks <= MaxChecks
        /\ (dl.missing_file /\ dl.total_checks < MaxChecks) =>
               \E f \in Range(files_to_download) : f \notin local

\* ---- C18
\* C18: the download request comes first, then the settle wait, and only
\* then the first progress query and the first cancellation check.
C18_SettleBeforeFirstPoll ==
    dl.pc # "idle" =>
        /\ dl.settled => requests # <<>>
        /\ (dl.polls > 0 \/ dl.cancel_checks > 0 \/ dl.pauses > 0) => dl.settled

\* a progress query and a cancellation check were made
C18_Witness == dl.pc # "idle" /\ dl.polls > 0 /\ dl.cancel_checks > 0 /\ dl.settled

\* ---- C19
\* C19: in both modes a file whose extension is not a scene extension is
\* never parsed and never a key of the graph, whether it was present or was
\* just downloaded; it appears in child lists only.
C19_NonSceneFilesAreLeaves ==
    /\ \A p \in Range(parsed) : splitext(p) \in Extensions
    /\ \A k \in Keys(found_files) \cup Keys(res) :
           k # None => splitext(k) \in Extensions

\* a file that is no scene was downloaded during the traversal and is a
\* child in the returned graph
C19_Witness ==
    /\ ReturnedGraph
    /\ \E p \in Others :
           /\ IsChild(res, p)
           /\ \E i \in RequestsOf("download_file") : requests[i].paths = <<p>>

\* ---- C20
\* what get_non_available_dependencies resolved for its input
Resolved == NonAvailable(nad.deps, <<>>, nad.listing, nad.isfile)

\* C20: with dialogs, a download request or a get_dependencies call is made
\* only after Yes was pressed; after No, or after the dialog was closed,
\* nothing is requested, and the returned list is the resolved list of
\* missing paths whatever the answer was.
C20_OnlyYesFetches ==
    nad.pc # "idle" /\ nad.show_dialogs =>
        /\ (requests # <<>> \/ nad.calls # <<>>) => nad.button = "yes"
        /\ nad.button \in {"no", "closed"} => requests = <<>> /\ nad.calls = <<>>
        /\ nad.exit = "return" => nad.returned = Resolved

\* the dialog was closed without an answer and a non-empty list was returned
C20_Witness ==
    /\ nad.pc = "done"
    /\ nad.show_dialogs
    /\ nad.button = "closed"
    /\ nad.returned # <<>>
    /\ requests = <<>>

\* ---- C21
\* remote_path_files when the loop reaches the i-th reference and has looked
\* up its folder
RECURSIVE CacheAt(_)
CacheAt(i) ==
    IF i = 0 THEN <<>>
    ELSE IF is_udim_path(nad.deps[i]) THEN Listed(nad.deps[i], CacheAt(i - 1), nad.listing)
    ELSE CacheAt(i - 1)

\* what the i-th reference adds to non_available_deps
ReportedFor(i) ==
    IF is_udim_path(nad.deps[i]) THEN Missing(AllCandidates(nad.deps[i], CacheAt(i)), nad.isfile)
    ELSE Missing(<<nad.deps[i]>>, nad.isfile)

\* ReportedFor(i) \o ... \o ReportedFor(Len(nad.deps))
RECURSIVE ReportedFrom(_)
ReportedFrom(i) ==
    IF i > Len(nad.deps) THEN <<>> ELSE ReportedFor(i) \o ReportedFrom(i + 1)

\* C21: every candidate reported for a UDIM reference lies in the
\* directory of that reference; the names listed for the directory of a
\* UDIM reference handled earlier in the call are not matched against it.
C21_CandidatesFromOwnDirectory ==
    ( /\ nad.pc \in {"resolved", "decided", "result", "done"}
      /\ nad.exit \in {"none", "return"}
      /\ nad.non_available_deps = ReportedFrom(1) )
    => \A i \in 1..Len(nad.deps) :
           is_udim_path(nad.deps[i]) =>
               \A c \in Range(ReportedFor(i)) : c.dir = nad.deps[i].dir

\* ---- C22
\* get_dependencies had a client and a root path, and has returned
ReturnedFromWalk == phase = "returned" /\ outcome \in {"ok", "no_dependencies"}

\* the root is a local file after its fetch attempt and has a scene extension
RootIsLocalScene == file_path \in local /\ splitext(file_path) \in Extensions

\* C22: a call with a client and a root path returns a non-empty graph
\* exactly when the root is local after its fetch attempt and is a scene
\* file, and exactly then it went through the batch download and ran the
\* post-processing hook; for a root that is local but no scene file the
\* empty graph is returned although the traversal recorded the root under
\* the key None. A call that does not return ends in the traversal of a
\* local scene root.
C22_GraphIffRootIsLocalScene ==
    /\ [](ReturnedFromWalk =>
             /\ res # EmptyDict <=> RootIsLocalScene
             /\ res # EmptyDict <=> "post_get_dependencies" \in effects
             /\ res # EmptyDict <=> outcome = "ok"
             /\ RequestsOf("download") # {} => res # EmptyDict)
    /\ []((ReturnedFromWalk /\ file_path \in local /\ ~RootIsLocalScene) =>
             /\ res = EmptyDict
             /\ In(file_path, Get(found_files, None)))
    /\ [](phase = "raised" => RootIsLocalScene)
    /\ [][(phase # "returned" /\ phase' = "returned" /\ outcome' = "ok")
           => phase = "finish"]_vars
    /\ [][(phase # "finish" /\ phase' = "finish")
           => phase = "download" /\ res # EmptyDict]_vars

\* a call for a local root that is no scene file has returned the empty
\* graph, with the root recorded under None
C22_Witness ==
    /\ ReturnedFromWalk
    /\ file_path \in local
    /\ splitext(file_path) \notin Extensions
    /\ res = EmptyDict
    /\ found_files = <<[key |-> None, children |-> <<file_path>>]>>
====
